---- MODULE Spec2Model ----
(***************************************************************************)
(* observer_ward: the HTTP API service (src/api.rs) and the resource       *)
(* refresh helper (src/helper.rs).                                         *)
(*                                                                         *)
(* Three specifications share this module:                                 *)
(*   Spec        the API server: requests on the three routes interleave,  *)
(*               the RwLock<ClusterType>, the scan task, the channel and   *)
(*               its two consumers;                                        *)
(*   SpecMerge   validator and the config merge of both POST routes, over  *)
(*               the whole bounded range of server and request values;     *)
(*   SpecHelper  Helper::run, one refresh operation executed step by step  *)
(*               against a file system drawn from a bounded set.           *)
(***************************************************************************)
EXTENDS Integers, Sequences, FiniteSets, TLC

\* ------------------------------------------------------------------ bounds
\* Number of HTTP requests one behaviour of Spec serves.
NReq == 3
\* Number of targets of a scan request.
MaxTargets == 2
\* Distinct values a configuration field takes (SpecMerge).
MaxVal == 2
\* Requests, with the tasks they spawned, in progress at one time (Spec).
MaxInFlight == 2
MaxUrls == 3

Req == 1..NReq
Targets == 1..MaxTargets
Vals == 1..MaxVal

\* Option<T>: 0 is None, a value of Vals is Some(v).
None == 0
OptVals == {None} \cup Vals

\* ------------------------------------------------------------ configuration
\* ObserverWardConfig, the fields api.rs and helper.rs read.
ConfigFields(plugins, dirs, modes, proxies, args, hooks, flags) ==
  [plugin : plugins, config_dir : dirs, mode : modes, proxy : proxies,
   nuclei_args : args, webhook : hooks, update_fingerprint : flags,
   update_service_fingerprint : flags, update_plugin : flags]

\* TokenAuth.token / credentials.token(): the bearer tokens.
Tokens == 1..2

\* validator(token_auth, credentials)
validatorAlways(token, credentials) == TRUE
validatorNeedsSecret(token, credentials) ==
  token # None /\ token = credentials
validator(token, credentials) ==
  IF token # None THEN token = credentials ELSE TRUE

\* The merge both POST handlers perform on a clone of the request body.
MergeKeepMode(config, cli_config) ==
  [config EXCEPT
     !.plugin = IF config.plugin # None THEN cli_config.plugin ELSE config.plugin,
     !.config_dir = cli_config.config_dir,
     !.proxy = cli_config.proxy,
     !.nuclei_args = cli_config.nuclei_args]
MergePluginAlways(config, cli_config) ==
  [config EXCEPT
     !.plugin = cli_config.plugin,
     !.config_dir = cli_config.config_dir,
     !.mode = cli_config.mode,
     !.proxy = cli_config.proxy,
     !.nuclei_args = cli_config.nuclei_args]
MergeKeepPlugin(config, cli_config) ==
  [config EXCEPT
     !.config_dir = cli_config.config_dir,
     !.mode = cli_config.mode,
     !.proxy = cli_config.proxy,
     !.nuclei_args = cli_config.nuclei_args]
MergeConfig(config, cli_config) ==
  [config EXCEPT
     !.plugin = IF config.plugin # None THEN cli_config.plugin ELSE config.plugin,
     !.config_dir = cli_config.config_dir,
     !.mode = cli_config.mode,
     !.proxy = cli_config.proxy,
     !.nuclei_args = cli_config.nuclei_args]

\* ------------------------------------------------------------ cluster handle
\* ClusterType is a struct of several template groups; two of them stand for
\* all.  Each group carries the clustering run that produced it: 0 is the run
\* of api_server at startup, r > 0 the run of set-config request r.
DefaultRun == 0 - 1
Unset == 0 - 2
ClusterOf(run) == [a |-> run, b |-> run]
\* ClusterType::default()
DefaultCl == ClusterOf(DefaultRun)
NoCl == ClusterOf(Unset)

\* -------------------------------------------------------------- file system
\* Content of a path: "none" (no such file), "old" (the artifact installed
\* before the operation), "new" (a well-formed download), "bad" (a download
\* that is not the expected format), "empty" (created, nothing written).
Paths == {"web", "service", "zip", "plugins"}
FpPath(kind) == kind

\* What one client.get(url).send() and the File::create after it can meet.
Outcomes == {"transport_err", "create_err", "status_err", "ok_good", "ok_bad"}

\* Helper::download_file_from_github: the file left at the destination and
\* the Result.  The destination is created (truncated) before the status code
\* is looked at.
download_file_from_github(content, outcome) ==
  CASE outcome = "transport_err" -> [file |-> content, ok |-> FALSE]
    [] outcome = "create_err" -> [file |-> content, ok |-> FALSE]
    [] outcome = "status_err" -> [file |-> "empty", ok |-> FALSE]
    [] outcome = "ok_good" -> [file |-> "new", ok |-> TRUE]
    [] outcome = "ok_bad" -> [file |-> "bad", ok |-> TRUE]

\* serde_json::from_reader::<File, Vec<Template>> succeeds on the file.
ParsesAsTemplates(content) == content \in {"old", "new"}

\* The validation both fingerprint updates run after the download loop:
\* File::open, parse, remove_file on a parse error.
ValidateFingerprint(content) ==
  IF content = "none" THEN content
  ELSE IF ParsesAsTemplates(content) THEN content
  ELSE "none"

\* The candidate URLs of a fingerprint update: each vec! holds one URL.
NumUrls == 1

\* The download loop over the candidate URLs: outs[i] is what URL i meets;
\* the loop leaves at the first Ok.
RECURSIVE DownloadLoop(_, _, _)
DownloadLoop(content, outs, i) ==
  IF i > Len(outs) THEN [file |-> content, ok |-> FALSE]
  ELSE LET d == download_file_from_github(content, outs[i])
       IN IF d.ok THEN d ELSE DownloadLoop(d.file, outs, i + 1)

\* Helper::update_fingerprint / Helper::update_service_fingerprint as a whole.
UpdateFingerprintFs(f, kind, outs) ==
  [f EXCEPT ![FpPath(kind)] =
     ValidateFingerprint(DownloadLoop(f[FpPath(kind)], outs, 1).file)]

\* Helper::update_plugins after a successful download: remove_dir_all of the
\* plugin directory when it exists.
RemovePluginsDir(f) == [f EXCEPT !["plugins"] = "none"]

\* File::open(plugins.zip), ZipArchive::new, archive.extract: a valid archive
\* is extracted into the config directory, anything else is only logged.
ExtractPluginsOrRestore(f) ==
  IF f["zip"] \in {"old", "new"} THEN [f EXCEPT !["plugins"] = f["zip"]]
  ELSE [f EXCEPT !["plugins"] = "old"]
ExtractPlugins(f) ==
  IF f["zip"] \in {"old", "new"} THEN [f EXCEPT !["plugins"] = f["zip"]] ELSE f

\* Helper::update_plugins as a whole.
UpdatePluginsFs(f, outcome) ==
  LET d == download_file_from_github(f["zip"], outcome)
      f1 == [f EXCEPT !["zip"] = d.file]
  IN IF ~d.ok THEN f1 ELSE ExtractPlugins(RemovePluginsDir(f1))

\* ------------------------------------------------------------------- state
VARIABLES
  cli_config,   \* web::Data<ObserverWardConfig>: the startup configuration
  cl,           \* the ClusterType stored in the RwLock
  readers,      \* requests holding the RwLock shared
  writers,      \* requests holding the RwLock exclusively
  poisoned,     \* the RwLock is poisoned
  fs,           \* the files under config_dir
  kind,         \* per request: "idle", "scan", "set", "get"
  cred,         \* per request: the bearer token presented
  body,         \* per request: the JSON body the handler cloned, <<>> when none
  cfg,          \* per request: the merged configuration, <<>> when none
  pc,           \* per request: position in its handler
  resp,         \* per request: HTTP status sent, 0 when none yet
  payload,      \* per request: the list a batch scan answers with
  handle,       \* per request: the ClusterType the handler copied
  seen,         \* per request: the stored ClusterType when it took the lock
  new_cl,       \* per request: the ClusterType a set-config computed
  tx,           \* per scan: "none", "open", "closed" (the sending end)
  todo,         \* per scan: targets the engine has not reported
  chan,         \* per scan: the unbounded channel's queue
  pushed,       \* per scan: every ExecuteResult the engine sent, in order
  pump,         \* per scan: the webhook task: "none", "running", "ended"
  hooklog,      \* per scan: the webhook_results calls made, in order
  refreshed,    \* per request: the refresh operations it ran, in order
  hop,          \* Helper::run: the operation chosen
  hpc,          \* Helper::run: position
  hidx,         \* Helper::run: index of the next candidate URL
  hout,         \* Helper::run: what the last download met, "none" before
  fs0,          \* Helper::run: the files before the operation
  hurls,        \* Helper::run: the length of the candidate list `urls`
  hlog          \* Helper::run: what each candidate contacted so far met

apiVars == <<cl, readers, writers, poisoned, kind, cred, body, cfg, pc, resp,
             payload, handle, seen, new_cl, tx, todo, chan, pushed, pump,
             hooklog, refreshed>>
helperVars == <<hop, hpc, hidx, hout, fs0, hurls, hlog>>
vars == <<cli_config, fs, apiVars, helperVars>>

\* ------------------------------------------------------------------ inputs
\* The startup configurations and request bodies Spec draws from.  A secret
\* is configured; the fields that steer the handlers vary (webhook or not, no
\* refresh or all three); the trust-boundary fields of a request hold a value
\* the server does not (MaxVal against 1).  SpecMerge covers the rest.
ServerConfigs ==
  [plugin : {1}, config_dir : {1}, mode : {1}, proxy : {1}, nuclei_args : {1},
   webhook : {FALSE}, update_fingerprint : {FALSE},
   update_service_fingerprint : {FALSE}, update_plugin : {FALSE},
   token : {1}]
ScanBodies ==
  ConfigFields({MaxVal}, {MaxVal}, {MaxVal}, {MaxVal}, {MaxVal},
               BOOLEAN, {FALSE})
SetBodies ==
  [plugin : {MaxVal}, config_dir : {MaxVal}, mode : {MaxVal}, proxy : {MaxVal},
   nuclei_args : {MaxVal}, webhook : {FALSE}, update_fingerprint : {FALSE},
   update_service_fingerprint : {FALSE}, update_plugin : {FALSE}] \cup
  [plugin : {MaxVal}, config_dir : {MaxVal}, mode : {MaxVal}, proxy : {MaxVal},
   nuclei_args : {MaxVal}, webhook : {FALSE}, update_fingerprint : {TRUE},
   update_service_fingerprint : {TRUE}, update_plugin : {TRUE}]
\* SpecMerge: every trust-boundary field of the server over ServerVals and of
\* the request over Vals, the secret configured or not.
ServerVals == 1..2
AllServerConfigs ==
  [plugin : {None} \cup ServerVals, config_dir : ServerVals, mode : ServerVals,
   proxy : ServerVals, nuclei_args : ServerVals, webhook : {FALSE},
   update_fingerprint : {FALSE},
   update_service_fingerprint : {FALSE}, update_plugin : {FALSE},
   token : {None, 1}]
AllBodies == ConfigFields(OptVals, Vals, Vals, Vals, Vals, {FALSE}, {FALSE})

\* The files a running server has under config_dir.
InstalledFs == [p \in Paths |-> IF p = "zip" THEN "none" ELSE "old"]

ApiInit ==
  /\ cl = ClusterOf(0)
  /\ readers = {}
  /\ writers = {}
  /\ poisoned = FALSE
  /\ kind = [r \in Req |-> "idle"]
  /\ cred = [r \in Req |-> None]
  /\ body = [r \in Req |-> <<>>]
  /\ cfg = [r \in Req |-> <<>>]
  /\ pc = [r \in Req |-> "idle"]
  /\ resp = [r \in Req |-> 0]
  /\ payload = [r \in Req |-> <<>>]
  /\ handle = [r \in Req |-> NoCl]
  /\ seen = [r \in Req |-> NoCl]
  /\ new_cl = [r \in Req |-> NoCl]
  /\ tx = [r \in Req |-> "none"]
  /\ todo = [r \in Req |-> {}]
  /\ chan = [r \in Req |-> <<>>]
  /\ pushed = [r \in Req |-> <<>>]
  /\ pump = [r \in Req |-> "none"]
  /\ hooklog = [r \in Req |-> <<>>]
  /\ refreshed = [r \in Req |-> <<>>]

HelperIdle ==
  /\ hop = "none"
  /\ hpc = "idle"
  /\ hidx = 1
  /\ hout = "none"
  /\ fs0 = fs
  /\ hurls = NumUrls
  /\ hlog = <<>>

Init ==
  /\ cli_config \in ServerConfigs
  /\ fs = InstalledFs
  /\ ApiInit
  /\ HelperIdle

\* Request r still has its handler or a task it spawned running.
InFlight(r) ==
  \/ pc[r] \notin {"idle", "done", "panicked"}
  \/ tx[r] = "open"
  \/ pump[r] = "running"
\* Requests arrive in the order of their numbers, while the server has fewer
\* than MaxInFlight of them in progress.
MayArrive(r) ==
  /\ kind[r] = "idle"
  /\ IF r = 1 THEN TRUE ELSE kind[r - 1] # "idle"
  /\ Cardinality({q \in Req : InFlight(q)}) < MaxInFlight

\* -------------------------------------------------- POST /v1/observer_ward
\* what_web_api up to the lock: validator, the 401 return, the merge.
WhatWebBegin(r, b, c) ==
  /\ MayArrive(r)
  /\ kind' = [kind EXCEPT ![r] = "scan"]
  /\ cred' = [cred EXCEPT ![r] = c]
  /\ IF ~validator(cli_config.token, c)
     THEN /\ resp' = [resp EXCEPT ![r] = 401]
          /\ pc' = [pc EXCEPT ![r] = "done"]
          /\ UNCHANGED <<body, cfg>>
     ELSE /\ body' = [body EXCEPT ![r] = <<b>>]
          /\ cfg' = [cfg EXCEPT ![r] = <<MergeConfig(b, cli_config)>>]
          /\ pc' = [pc EXCEPT ![r] = "read"]
          /\ resp' = resp
  /\ UNCHANGED <<cli_config, fs, cl, readers, writers, poisoned, payload, handle,
                 seen, new_cl, tx, todo, chan, pushed, pump, hooklog, refreshed,
                 helperVars>>

\* RwLock::read grants the shared lock.
CanReadAnyTime == TRUE
CanRead == writers = {}

\* The handle a scan takes when cl.read() returns Err: ClusterType::default().
StoredOnReadErr == cl
HandleOnReadErr == DefaultCl

\* cl.read(): Ok(guard) when the lock is sound, Err when it is poisoned and
\* the handler takes ClusterType::default().
ReadLock(r) ==
  /\ pc[r] = "read"
  /\ CanRead
  /\ seen' = [seen EXCEPT ![r] = cl]
  /\ IF poisoned
     THEN /\ handle' = [handle EXCEPT ![r] = HandleOnReadErr]
          /\ pc' = [pc EXCEPT ![r] = "spawn"]
          /\ readers' = readers
     ELSE /\ readers' = readers \cup {r}
          /\ pc' = [pc EXCEPT ![r] = "copy_a"]
          /\ handle' = handle
  /\ UNCHANGED <<cli_config, fs, cl, writers, poisoned, kind, cred, body, cfg,
                 resp, payload, new_cl, tx, todo, chan, pushed, pump, hooklog,
                 refreshed, helperVars>>

\* cl_guard.deref().clone(), first group.
CloneA(r) ==
  /\ pc[r] = "copy_a"
  /\ handle' = [handle EXCEPT ![r].a = cl.a]
  /\ pc' = [pc EXCEPT ![r] = "copy_b"]
  /\ UNCHANGED <<cli_config, fs, cl, readers, writers, poisoned, kind, cred,
                 body, cfg, resp, payload, seen, new_cl, tx, todo, chan, pushed,
                 pump, hooklog, refreshed, helperVars>>

\* The holders of the shared lock once the read guard of request r drops, at
\* the end of the block that copies the handle.
KeepReadGuard(r) == readers
DropReadGuard(r) == readers \ {r}

\* cl_guard.deref().clone(), second group; the guard drops at the block's end.
CloneB(r) ==
  /\ pc[r] = "copy_b"
  /\ handle' = [handle EXCEPT ![r].b = cl.b]
  /\ readers' = DropReadGuard(r)
  /\ pc' = [pc EXCEPT ![r] = "spawn"]
  /\ UNCHANGED <<cli_config, fs, cl, writers, poisoned, kind, cred, body, cfg,
                 resp, payload, seen, new_cl, tx, todo, chan, pushed, pump,
                 hooklog, refreshed, helperVars>>

\* unbounded() and tokio::task::spawn of ObserverWard::new(&config, cl).execute(tx)
SpawnScan(r) ==
  /\ pc[r] = "spawn"
  /\ tx' = [tx EXCEPT ![r] = "open"]
  /\ todo' = [todo EXCEPT ![r] = Targets]
  /\ pc' = [pc EXCEPT ![r] = "deliver"]
  /\ UNCHANGED <<cli_config, fs, cl, readers, writers, poisoned, kind, cred,
                 body, cfg, resp, payload, handle, seen, new_cl, chan, pushed,
                 pump, hooklog, refreshed, helperVars>>

\* The ClusterType the scan task of request r matches against: the value moved
\* into the task at spawn.
EngineSharedCl(r) == cl
EngineCl(r) == handle[r]

\* One ExecuteResult: the target and what matched, which depends on the
\* cluster the engine ran with.
ExecuteResult(t, c) == [target |-> t, matched |-> <<t, c>>]

\* tx.unbounded_send(x) on the queue q of the channel: x goes to the back.
ChanSendFront(q, x) == <<x>> \o q
ChanSend(q, x) == Append(q, x)

\* The scan task reports one target: tx.unbounded_send(result).  The engine
\* chooses the order.
EnginePush(r, t) ==
  /\ tx[r] = "open"
  /\ t \in todo[r]
  /\ todo' = [todo EXCEPT ![r] = @ \ {t}]
  /\ chan' = [chan EXCEPT ![r] = ChanSend(@, ExecuteResult(t, EngineCl(r)))]
  /\ pushed' = [pushed EXCEPT ![r] = Append(@, ExecuteResult(t, EngineCl(r)))]
  /\ UNCHANGED <<cli_config, fs, cl, readers, writers, poisoned, kind, cred,
                 body, cfg, pc, resp, payload, handle, seen, new_cl, tx, pump,
                 hooklog, refreshed, helperVars>>

\* execute returns and the task ends: tx is dropped, the channel closes.
EngineClose(r) ==
  /\ tx[r] = "open"
  /\ tx' = [tx EXCEPT ![r] = "closed"]
  /\ UNCHANGED <<cli_config, fs, cl, readers, writers, poisoned, kind, cred,
                 body, cfg, pc, resp, payload, handle, seen, new_cl, todo, chan,
                 pushed, pump, hooklog, refreshed, helperVars>>

\* let webhook = config.webhook.is_some(): the delivery policy of the request.
NeverWebhook(c) == FALSE
IsWebhook(c) == c.webhook

\* rx.next() yields None: the queue is empty and every sender is gone.
StreamEndedWhenEmpty(r) == chan[r] = <<>>
StreamEndedNever(r) == FALSE
StreamEnded(r) == chan[r] = <<>> /\ tx[r] = "closed"

\* Batch mode, one turn of `while let Some(execute_result) = rx.next().await`.
BatchNext(r) ==
  /\ pc[r] = "deliver"
  /\ ~IsWebhook(cfg[r][1])
  /\ chan[r] # <<>>
  /\ payload' = [payload EXCEPT ![r] = Append(@, Head(chan[r]).matched)]
  /\ chan' = [chan EXCEPT ![r] = Tail(@)]
  /\ UNCHANGED <<cli_config, fs, cl, readers, writers, poisoned, kind, cred,
                 body, cfg, pc, resp, handle, seen, new_cl, tx, todo, pushed,
                 pump, hooklog, refreshed, helperVars>>

\* Batch mode, the loop ends: HttpResponse::Ok().json(results).
BatchRespond(r) ==
  /\ pc[r] = "deliver"
  /\ ~IsWebhook(cfg[r][1])
  /\ StreamEnded(r)
  /\ resp' = [resp EXCEPT ![r] = 200]
  /\ pc' = [pc EXCEPT ![r] = "done"]
  /\ UNCHANGED <<cli_config, fs, cl, readers, writers, poisoned, kind, cred,
                 body, cfg, payload, handle, seen, new_cl, tx, todo, chan,
                 pushed, pump, hooklog, refreshed, helperVars>>

\* Webhook mode: rt::spawn of the pump, then HttpResponse::Ok().finish().
\* rt::spawn queues the pump on the handler's own thread, which runs it only
\* after the handler has returned.
WebhookRespond(r) ==
  /\ pc[r] = "deliver"
  /\ IsWebhook(cfg[r][1])
  /\ pump' = [pump EXCEPT ![r] = "running"]
  /\ resp' = [resp EXCEPT ![r] = 200]
  /\ pc' = [pc EXCEPT ![r] = "done"]
  /\ UNCHANGED <<cli_config, fs, cl, readers, writers, poisoned, kind, cred,
                 body, cfg, payload, handle, seen, new_cl, tx, todo, chan,
                 pushed, hooklog, refreshed, helperVars>>

\* The pump, one turn: output.webhook_results(vec![execute_result.matched]).
PumpNext(r) ==
  /\ pump[r] = "running"
  /\ chan[r] # <<>>
  /\ hooklog' = [hooklog EXCEPT ![r] = Append(@, <<Head(chan[r]).matched>>)]
  /\ chan' = [chan EXCEPT ![r] = Tail(@)]
  /\ UNCHANGED <<cli_config, fs, cl, readers, writers, poisoned, kind, cred,
                 body, cfg, pc, resp, payload, handle, seen, new_cl, tx, todo,
                 pushed, pump, refreshed, helperVars>>

\* The pump's loop ends.
PumpEnd(r) ==
  /\ pump[r] = "running"
  /\ StreamEnded(r)
  /\ pump' = [pump EXCEPT ![r] = "ended"]
  /\ UNCHANGED <<cli_config, fs, cl, readers, writers, poisoned, kind, cred,
                 body, cfg, pc, resp, payload, handle, seen, new_cl, tx, todo,
                 chan, pushed, hooklog, refreshed, helperVars>>

\* ----------------------------------------------------------- POST /v1/config
\* The refresh stage of set_config_api that follows stage `after`: the three
\* `if cfg.update_*` tests in their order, then the write lock.
StageAfter(c, after) ==
  IF after = "begin" /\ c.update_fingerprint THEN "upd_web"
  ELSE IF after \in {"begin", "upd_web"} /\ c.update_service_fingerprint
       THEN "upd_svc"
  ELSE IF after \in {"begin", "upd_web", "upd_svc"} /\ c.update_plugin
       THEN "upd_plug"
  ELSE "write"

\* The server's configuration (web::Data<ObserverWardConfig>) after a set-config
\* has merged: the handler writes only `cfg`, its own clone of the body.
ServerConfigStored(server, merged) ==
  [f \in DOMAIN server |-> IF f \in DOMAIN merged THEN merged[f] ELSE server[f]]
ServerConfigAfterSet(server, merged) == server

\* set_config_api up to the refresh operations: validator, the 401 return,
\* the merge, Helper::new.
SetConfigBegin(r, b, c) ==
  /\ MayArrive(r)
  /\ kind' = [kind EXCEPT ![r] = "set"]
  /\ cred' = [cred EXCEPT ![r] = c]
  /\ IF ~validator(cli_config.token, c)
     THEN /\ resp' = [resp EXCEPT ![r] = 401]
          /\ pc' = [pc EXCEPT ![r] = "done"]
          /\ UNCHANGED <<cli_config, body, cfg>>
     ELSE /\ body' = [body EXCEPT ![r] = <<b>>]
          /\ cfg' = [cfg EXCEPT ![r] = <<MergeConfig(b, cli_config)>>]
          /\ cli_config' =
               ServerConfigAfterSet(cli_config, MergeConfig(b, cli_config))
          /\ pc' = [pc EXCEPT ![r] =
                      StageAfter(MergeConfig(b, cli_config), "begin")]
          /\ resp' = resp
  /\ UNCHANGED <<fs, cl, readers, writers, poisoned, payload, handle,
                 seen, new_cl, tx, todo, chan, pushed, pump, hooklog, refreshed,
                 helperVars>>

\* helper.update_fingerprint().await
RefreshWeb(r, outs) ==
  /\ pc[r] = "upd_web"
  /\ fs' = UpdateFingerprintFs(fs, "web", outs)
  /\ refreshed' = [refreshed EXCEPT ![r] = Append(@, "web")]
  /\ pc' = [pc EXCEPT ![r] = StageAfter(cfg[r][1], "upd_web")]
  /\ UNCHANGED <<cli_config, cl, readers, writers, poisoned, kind, cred, body,
                 cfg, resp, payload, handle, seen, new_cl, tx, todo, chan,
                 pushed, pump, hooklog, helperVars>>

\* helper.update_service_fingerprint().await
RefreshService(r, outs) ==
  /\ pc[r] = "upd_svc"
  /\ fs' = UpdateFingerprintFs(fs, "service", outs)
  /\ refreshed' = [refreshed EXCEPT ![r] = Append(@, "service")]
  /\ pc' = [pc EXCEPT ![r] = StageAfter(cfg[r][1], "upd_svc")]
  /\ UNCHANGED <<cli_config, cl, readers, writers, poisoned, kind, cred, body,
                 cfg, resp, payload, handle, seen, new_cl, tx, todo, chan,
                 pushed, pump, hooklog, helperVars>>

\* helper.update_plugins().await
RefreshPlugins(r, outcome) ==
  /\ pc[r] = "upd_plug"
  /\ fs' = UpdatePluginsFs(fs, outcome)
  /\ refreshed' = [refreshed EXCEPT ![r] = Append(@, "plugins")]
  /\ pc' = [pc EXCEPT ![r] = "write"]
  /\ UNCHANGED <<cli_config, cl, readers, writers, poisoned, kind, cred, body,
                 cfg, resp, payload, handle, seen, new_cl, tx, todo, chan,
                 pushed, pump, hooklog, helperVars>>

\* RwLock::write grants the exclusive lock.
CanWrite == writers = {} /\ readers = {}

\* cl.write(): Ok(guard) when the lock is sound; Err when it is poisoned, and
\* then the handler skips the replace and answers.
WriteLock(r) ==
  /\ pc[r] = "write"
  /\ CanWrite
  /\ IF poisoned
     THEN /\ resp' = [resp EXCEPT ![r] = 200]
          /\ pc' = [pc EXCEPT ![r] = "done"]
          /\ writers' = writers
     ELSE /\ writers' = writers \cup {r}
          /\ pc' = [pc EXCEPT ![r] = "compute"]
          /\ resp' = resp
  /\ UNCHANGED <<cli_config, fs, cl, readers, poisoned, kind, cred, body, cfg,
                 payload, handle, seen, new_cl, tx, todo, chan, pushed, pump,
                 hooklog, refreshed, helperVars>>

\* Under the guard: cfg.templates() and cluster_templates(&templates).  Either
\* returns, or panics; the unwinding drops the guard and poisons the lock, and
\* the request ends without a response.
ComputeCluster(r) ==
  /\ pc[r] = "compute"
  /\ \/ /\ new_cl' = [new_cl EXCEPT ![r] = ClusterOf(r)]
        /\ pc' = [pc EXCEPT ![r] = "assign_a"]
        /\ UNCHANGED <<writers, poisoned>>
     \/ /\ poisoned' = TRUE
        /\ writers' = writers \ {r}
        /\ pc' = [pc EXCEPT ![r] = "panicked"]
        /\ new_cl' = new_cl
  /\ UNCHANGED <<cli_config, fs, cl, readers, kind, cred, body, cfg, resp,
                 payload, handle, seen, tx, todo, chan, pushed, pump, hooklog,
                 refreshed, helperVars>>

\* *cl_guard = new_cl, first group.
AssignA(r) ==
  /\ pc[r] = "assign_a"
  /\ cl' = [cl EXCEPT !.a = new_cl[r].a]
  /\ pc' = [pc EXCEPT ![r] = "assign_b"]
  /\ UNCHANGED <<cli_config, fs, readers, writers, poisoned, kind, cred, body,
                 cfg, resp, payload, handle, seen, new_cl, tx, todo, chan,
                 pushed, pump, hooklog, refreshed, helperVars>>

\* *cl_guard = new_cl, second group; the guard drops; HttpResponse::Ok().json(cfg).
AssignB(r) ==
  /\ pc[r] = "assign_b"
  /\ cl' = [cl EXCEPT !.b = new_cl[r].b]
  /\ writers' = writers \ {r}
  /\ resp' = [resp EXCEPT ![r] = 200]
  /\ pc' = [pc EXCEPT ![r] = "done"]
  /\ UNCHANGED <<cli_config, fs, readers, poisoned, kind, cred, body, cfg,
                 payload, handle, seen, new_cl, tx, todo, chan, pushed, pump,
                 hooklog, refreshed, helperVars>>

\* ------------------------------------------------------------ GET /v1/config
\* get_config_api: validator, then the startup configuration as the body.
GetConfig(r, c) ==
  /\ MayArrive(r)
  /\ kind' = [kind EXCEPT ![r] = "get"]
  /\ cred' = [cred EXCEPT ![r] = c]
  /\ pc' = [pc EXCEPT ![r] = "done"]
  /\ IF ~validator(cli_config.token, c)
     THEN /\ resp' = [resp EXCEPT ![r] = 401]
          /\ payload' = payload
     ELSE /\ resp' = [resp EXCEPT ![r] = 200]
          /\ payload' = [payload EXCEPT ![r] = <<cli_config>>]
  /\ UNCHANGED <<cli_config, fs, cl, readers, writers, poisoned, body, cfg,
                 handle, seen, new_cl, tx, todo, chan, pushed, pump, hooklog,
                 refreshed, helperVars>>

\* ------------------------------------------------------------ the API server
\* What the downloads of a set-config request meet in Spec; SpecHelper runs
\* the refresh operations over all of Outcomes.
ApiOutcomes == {"status_err", "ok_good"}
UrlOutcomes == [1..NumUrls -> ApiOutcomes]

Next ==
  \E r \in Req :
    \/ \E b \in ScanBodies, c \in Tokens : WhatWebBegin(r, b, c)
    \/ ReadLock(r)
    \/ CloneA(r)
    \/ CloneB(r)
    \/ SpawnScan(r)
    \/ \E t \in Targets : EnginePush(r, t)
    \/ EngineClose(r)
    \/ BatchNext(r)
    \/ BatchRespond(r)
    \/ WebhookRespond(r)
    \/ PumpNext(r)
    \/ PumpEnd(r)
    \/ \E b \in SetBodies, c \in Tokens : SetConfigBegin(r, b, c)
    \/ \E outs \in UrlOutcomes : RefreshWeb(r, outs)
    \/ \E outs \in UrlOutcomes : RefreshService(r, outs)
    \/ \E o \in ApiOutcomes : RefreshPlugins(r, o)
    \/ WriteLock(r)
    \/ ComputeCluster(r)
    \/ AssignA(r)
    \/ AssignB(r)
    \/ \E c \in Tokens : GetConfig(r, c)

Spec == Init /\ [][Next]_vars

\* ------------------------------------------- the API server, fair scheduling
\* No request is being handled, no scan task and no pump is running.
Quiet == \A q \in Req : ~InFlight(q)

\* The steps of Next, with requests arriving one after the other: a request
\* arrives once the one before it, its scan task and its pump have ended.
NextFair ==
  \E r \in Req :
    \/ Quiet /\ \E b \in ScanBodies, c \in Tokens : WhatWebBegin(r, b, c)
    \/ ReadLock(r)
    \/ CloneA(r)
    \/ CloneB(r)
    \/ SpawnScan(r)
    \/ \E t \in Targets : EnginePush(r, t)
    \/ EngineClose(r)
    \/ BatchNext(r)
    \/ BatchRespond(r)
    \/ WebhookRespond(r)
    \/ PumpNext(r)
    \/ PumpEnd(r)
    \/ Quiet /\ \E b \in SetBodies, c \in Tokens : SetConfigBegin(r, b, c)
    \/ \E outs \in UrlOutcomes : RefreshWeb(r, outs)
    \/ \E outs \in UrlOutcomes : RefreshService(r, outs)
    \/ \E o \in ApiOutcomes : RefreshPlugins(r, o)
    \/ WriteLock(r)
    \/ ComputeCluster(r)
    \/ AssignA(r)
    \/ AssignB(r)
    \/ Quiet /\ \E c \in Tokens : GetConfig(r, c)

\* The runtimes poll every task that can make progress (the actix workers poll
\* the handler futures and the pumps spawned with rt::spawn, tokio polls the
\* scan tasks), and a scan task that was spawned returns: each step of a
\* handler, of a pump and the end of a scan task is taken if it stays possible.
\* Nothing is assumed about requests arriving or results being produced.
Fairness ==
  \A r \in Req :
    /\ WF_vars(ReadLock(r)) /\ WF_vars(CloneA(r)) /\ WF_vars(CloneB(r))
    /\ WF_vars(SpawnScan(r)) /\ WF_vars(EngineClose(r))
    /\ WF_vars(BatchNext(r)) /\ WF_vars(BatchRespond(r))
    /\ WF_vars(WebhookRespond(r))
    /\ WF_vars(PumpNext(r)) /\ WF_vars(PumpEnd(r))
    /\ WF_vars(WriteLock(r)) /\ WF_vars(ComputeCluster(r))
    /\ WF_vars(AssignA(r)) /\ WF_vars(AssignB(r))

SpecFair == Init /\ [][NextFair]_vars /\ Fairness

\* ------------------------------------------------- validator and the merge
\* One request on either POST route, its body and token over every value.
InitMerge ==
  /\ cli_config \in AllServerConfigs
  /\ fs = InstalledFs
  /\ ApiInit
  /\ HelperIdle

NextMerge ==
  \E b \in AllBodies, c \in Tokens :
    \/ WhatWebBegin(1, b, c)
    \/ SetConfigBegin(1, b, c)

SpecMerge == InitMerge /\ [][NextMerge]_vars

\* --------------------------------------------------------------- Helper::run
\* The command line's configurations: any of the three update flags.
HelperConfigs ==
  [plugin : {1}, config_dir : {1}, mode : {1}, proxy : {1}, nuclei_args : {1},
   webhook : {FALSE}, update_fingerprint : BOOLEAN,
   update_service_fingerprint : BOOLEAN, update_plugin : BOOLEAN,
   token : {None}]

\* The files under config_dir before the run: each installed or not.
HelperFs == [Paths -> {"none", "old"}]

InitHelper ==
  /\ cli_config \in HelperConfigs
  /\ fs \in HelperFs
  /\ ApiInit
  /\ HelperIdle

\* The download returned Ok(()).
DownloadOk(outcome) == outcome \in {"ok_good", "ok_bad"}

\* Helper::run: the first update flag set, in the order the code tests them.
\* (update_self, tested before update_plugin, writes only its own file beside
\* the executable and is taken to be unset.)
HelperRun ==
  /\ hpc = "idle"
  /\ hop' = (IF cli_config.update_service_fingerprint THEN "service"
             ELSE IF cli_config.update_fingerprint THEN "web"
             ELSE IF cli_config.update_plugin THEN "plugins"
             ELSE "none")
  /\ hpc' = (IF hop' = "none" THEN "exit" ELSE "download")
  /\ UNCHANGED <<cli_config, fs, apiVars, hidx, hout, fs0, hurls, hlog>>

\* Where a fingerprint update goes after the download of URL i: out of the
\* loop on Ok (break) or after the last URL, else to the next URL (continue).
AfterFingerprintDownloadWholeList(ok, i) ==
  IF i >= hurls THEN "validate" ELSE "download"
AfterFingerprintDownload(ok, i) ==
  IF ok \/ i >= hurls THEN "validate" ELSE "download"

\* update_fingerprint / update_service_fingerprint, one turn of `for url in urls`.
FingerprintDownload(o) ==
  /\ hpc = "download"
  /\ hop \in {"web", "service"}
  /\ fs' = [fs EXCEPT ![FpPath(hop)] = download_file_from_github(@, o).file]
  /\ hout' = o
  /\ hidx' = hidx + 1
  /\ hpc' = AfterFingerprintDownload(DownloadOk(o), hidx)
  /\ hlog' = Append(hlog, o)
  /\ UNCHANGED <<cli_config, apiVars, hop, fs0, hurls>>

\* update_fingerprint / update_service_fingerprint after the loop: File::open,
\* the parse, remove_file on a parse error; Helper::run then exits.
FingerprintValidate ==
  /\ hpc = "validate"
  /\ fs' = [fs EXCEPT ![FpPath(hop)] = ValidateFingerprint(@)]
  /\ hpc' = "exit"
  /\ UNCHANGED <<cli_config, apiVars, hop, hidx, hout, fs0, hurls, hlog>>

\* Where update_plugins goes after the download: `return` on Err.
AfterPluginDownloadAlways(ok) == "remove"
AfterPluginDownload(ok) == IF ok THEN "remove" ELSE "exit"

\* update_plugins: the download of plugins.zip.
PluginDownload(o) ==
  /\ hpc = "download"
  /\ hop = "plugins"
  /\ fs' = [fs EXCEPT !["zip"] = download_file_from_github(@, o).file]
  /\ hout' = o
  /\ hpc' = AfterPluginDownload(DownloadOk(o))
  /\ UNCHANGED <<cli_config, apiVars, hop, hidx, fs0, hurls, hlog>>

\* update_plugins: remove_dir_all of the plugin directory.
PluginRemove ==
  /\ hpc = "remove"
  /\ fs' = RemovePluginsDir(fs)
  /\ hpc' = "extract"
  /\ UNCHANGED <<cli_config, apiVars, hop, hidx, hout, fs0, hurls, hlog>>

\* update_plugins: open the archive and extract it; Helper::run then exits.
PluginExtract ==
  /\ hpc = "extract"
  /\ fs' = ExtractPlugins(fs)
  /\ hpc' = "exit"
  /\ UNCHANGED <<cli_config, apiVars, hop, hidx, hout, fs0, hurls, hlog>>

NextHelper ==
  \/ HelperRun
  \/ \E o \in Outcomes : FingerprintDownload(o)
  \/ FingerprintValidate
  \/ \E o \in Outcomes : PluginDownload(o)
  \/ PluginRemove
  \/ PluginExtract

SpecHelper == InitHelper /\ [][NextHelper]_vars

\* ------------------------------------------------------------ the fetch loop
\* The loop of update_fingerprint / update_service_fingerprint over a candidate
\* list of any length up to MaxUrls (the lists in the source hold one URL).
InitFetch ==
  /\ cli_config \in HelperConfigs
  /\ fs \in HelperFs
  /\ ApiInit
  /\ hop = "none"
  /\ hpc = "idle"
  /\ hidx = 1
  /\ hout = "none"
  /\ fs0 = fs
  /\ hurls \in 1..MaxUrls
  /\ hlog = <<>>

SpecFetch == InitFetch /\ [][NextHelper]_vars

\* ===================================================================== claims
\* Request r passed the auth gate of a POST route.
Authorized(r) ==
  kind[r] \in {"scan", "set"} /\ validator(cli_config.token, cred[r])

\* Request r presented a token other than the configured secret.
Unauthorized(r) ==
  kind[r] # "idle" /\ cli_config.token # None /\ cred[r] # cli_config.token

\* C1: for every authorized request to POST /v1/observer_ward and to
\* POST /v1/config, whatever the body supplies, the merged configuration has
\* config_dir, mode, proxy and nuclei_args equal to the startup configuration's.
C1_PinnedFields ==
  \A r \in Req :
    Authorized(r) =>
      /\ cfg[r] # <<>>
      /\ cfg[r][1].config_dir = cli_config.config_dir
      /\ cfg[r][1].mode = cli_config.mode
      /\ cfg[r][1].proxy = cli_config.proxy
      /\ cfg[r][1].nuclei_args = cli_config.nuclei_args

\* A set-config request whose body differs from the server in all four fields
\* has been merged.
C1_Witness ==
  /\ kind[1] = "set"
  /\ Authorized(1)
  /\ cli_config.token # None
  /\ body[1][1].config_dir # cli_config.config_dir
  /\ body[1][1].mode # cli_config.mode
  /\ body[1][1].proxy # cli_config.proxy
  /\ body[1][1].nuclei_args # cli_config.nuclei_args

\* No later stage of a handler has acted for request r.
NoLaterStage(r) ==
  /\ cfg[r] = <<>>
  /\ handle[r] = NoCl
  /\ seen[r] = NoCl
  /\ new_cl[r] = NoCl
  /\ r \notin readers
  /\ r \notin writers
  /\ tx[r] = "none"
  /\ pushed[r] = <<>>
  /\ pump[r] = "none"
  /\ hooklog[r] = <<>>
  /\ refreshed[r] = <<>>
  /\ payload[r] = <<>>
  /\ cl.a # r
  /\ cl.b # r

\* C2: with a secret configured and a different token presented, each route
\* answers 401 and runs no later stage (no merge, no cluster read, no scan
\* task, no webhook push, no refresh, no replace), and the step that serves
\* the request leaves the stored cluster, the lock and the files as they were.
C2_UnauthorizedStops ==
  /\ [](\A r \in Req : Unauthorized(r) =>
           resp[r] = 401 /\ pc[r] = "done" /\ NoLaterStage(r))
  /\ [][\A r \in Req :
          (kind[r] = "idle" /\ kind'[r] # "idle" /\ cred'[r] # cli_config.token
             /\ cli_config.token # None)
          => (cl' = cl /\ fs' = fs /\ readers' = readers /\ writers' = writers
                /\ poisoned' = poisoned)]_vars

\* A set-config request was refused after another one had refreshed the files
\* and replaced the cluster.
C2_Witness ==
  \E r, q \in Req :
    /\ Unauthorized(r)
    /\ kind[r] = "set"
    /\ resp[r] = 401
    /\ q < r
    /\ refreshed[q] # <<>>
    /\ cl = ClusterOf(q)

\* Scan r has been spawned.
Spawned(r) == kind[r] = "scan" /\ tx[r] # "none"

\* Every result scan r produced was matched against the handle the handler
\* copied at submission.
RunsOnOwnHandle(r) ==
  \A i \in 1..Len(pushed[r]) : pushed[r][i].matched[2] = handle[r]

\* Scan r was submitted after a replace had completed: the cluster stored when
\* it asked for the lock was a set-config request's.
AfterReplace(r) == \E q \in Req : kind[q] = "set" /\ seen[r] = ClusterOf(q)

\* C3 as claimed: every scan runs against the handle it obtained at submission
\* (a replace in flight never changes it), and every scan submitted after a
\* replace has completed uses the new handle.
C3_Original ==
  \A r \in Req :
    Spawned(r) =>
      /\ RunsOnOwnHandle(r)
      /\ (AfterReplace(r) => handle[r] = seen[r])

\* C3 amended: every scan runs against the handle it obtained at submission
\* and no replace changes that handle afterwards; the handle is the stored one
\* of that moment unless the lock was poisoned, and then it is the default one.
C3_Snapshot ==
  /\ [](\A r \in Req :
          Spawned(r) =>
            /\ RunsOnOwnHandle(r)
            /\ (handle[r] = seen[r] \/ (poisoned /\ handle[r] = DefaultCl))
            /\ (~poisoned => handle[r] = seen[r]))
  /\ [][\A r \in Req :
          Spawned(r) => (handle'[r] = handle[r] /\ seen'[r] = seen[r])]_vars

\* A scan is still reporting on the handle of its submission after a replace
\* installed another one.
C3_Witness ==
  \E r, q \in Req :
    /\ Spawned(r)
    /\ pushed[r] # <<>>
    /\ handle[r] = ClusterOf(0)
    /\ kind[q] = "set" /\ resp[q] = 200 /\ cl = ClusterOf(q)
    /\ todo[r] # {}

\* The clustering runs there have been: startup and the set-config requests.
Runs == {0} \cup {q \in Req : kind[q] = "set"}

\* C4: a read that returns a handle returns the whole handle of one clustering
\* run (the one stored when the lock was granted), never groups of two runs;
\* at most one writer holds the lock, and never beside a reader.
C4_AtomicRead ==
  /\ \A r \in Req :
       (kind[r] = "scan" /\ pc[r] \in {"spawn", "deliver", "done"}
          /\ resp[r] # 401 /\ handle[r] # DefaultCl)
       => (\E k \in Runs : handle[r] = ClusterOf(k)) /\ handle[r] = seen[r]
  /\ \A r \in Req :
       pc[r] \in {"copy_a", "copy_b"} => \E k \in Runs : cl = ClusterOf(k)
  /\ Cardinality(writers) <= 1
  /\ (writers # {} => readers = {})

\* A scan asks for the shared lock while a replace has written one group of
\* the stored cluster and not yet the other.
C4_Witness ==
  \E r, q \in Req :
    /\ pc[q] = "assign_b"
    /\ cl.a # cl.b
    /\ pc[r] = "read"

\* The matched mappings of a sequence of ExecuteResults.
Matched(s) == [i \in 1..Len(s) |-> s[i].matched]

\* Scan r delivers in batch mode.
Batch(r) == Spawned(r) /\ ~cfg[r][1].webhook

\* C5: in batch mode the response list is, entry for entry and in order, the
\* results the engine pushed, none twice and none missing, and the response
\* is sent only once the channel is closed.
C5_BatchComplete ==
  \A r \in Req :
    Batch(r) =>
      /\ payload[r] \o Matched(chan[r]) = Matched(pushed[r])
      /\ \A i, j \in 1..Len(payload[r]) : i # j => payload[r][i] # payload[r][j]
      /\ (resp[r] = 200 =>
            tx[r] = "closed" /\ payload[r] = Matched(pushed[r]))
      /\ (resp[r] # 200 => pc[r] = "deliver")

\* A batch response carrying every target, in an order other than the
\* targets' own.
C5_Witness ==
  \E r \in Req :
    /\ Batch(r)
    /\ resp[r] = 200
    /\ Len(payload[r]) = MaxTargets
    /\ payload[r][1][1] = MaxTargets

\* Scan r delivers by webhook.
Webhook(r) == Spawned(r) /\ cfg[r][1].webhook

\* The webhook_results calls that forward the sequence s one result per call.
OnePushEach(s) == [i \in 1..Len(s) |-> <<s[i].matched>>]

\* C6: in webhook mode the pushes made so far, followed by what still waits in
\* the channel, are the engine's results in its order, one push per result;
\* when the pump ends every result has been pushed exactly once.
C6_WebhookForward ==
  \A r \in Req :
    Webhook(r) =>
      /\ hooklog[r] \o OnePushEach(chan[r]) = OnePushEach(pushed[r])
      /\ (pump[r] = "ended" =>
            tx[r] = "closed" /\ hooklog[r] = OnePushEach(pushed[r]))
      /\ payload[r] = <<>>

\* The pump ended after forwarding every target, in an order other than the
\* targets' own.
C6_Witness ==
  \E r \in Req :
    /\ Webhook(r)
    /\ pump[r] = "ended"
    /\ Len(hooklog[r]) = MaxTargets
    /\ hooklog[r][1][1][1] = MaxTargets

\* C7: in webhook mode the 200 acknowledgment precedes every webhook push (so
\* it is never after the final one), and it does not wait for the scan: the
\* handler can answer whatever the scan task has done.
C7_AckFirst ==
  \A r \in Req :
    /\ (Spawned(r) /\ (hooklog[r] # <<>> \/ pump[r] # "none")) => resp[r] = 200
    /\ (Webhook(r) /\ pc[r] = "deliver") => ENABLED WebhookRespond(r)

\* The acknowledgment is out while the scan still runs and a result waits,
\* unforwarded, in the channel.
C7_Witness ==
  \E r \in Req :
    /\ Webhook(r)
    /\ resp[r] = 200
    /\ tx[r] = "open"
    /\ chan[r] # <<>>
    /\ hooklog[r] = <<>>

\* C8: update_plugins removes the plugin directory only after the download
\* returned Ok; when the download fails the operation returns with the plugin
\* directory as it was.
C8_PluginsKeptOnFetchFailure ==
  /\ []((hop = "plugins" /\ hpc = "exit" /\ ~DownloadOk(hout))
          => fs["plugins"] = fs0["plugins"])
  /\ [][fs'["plugins"] # fs["plugins"]
          => (hop = "plugins" /\ DownloadOk(hout))]_vars

\* update_plugins returned after a non-success status, the installed plugin
\* directory still there.
C8_Witness ==
  /\ hop = "plugins"
  /\ hpc = "exit"
  /\ hout = "status_err"
  /\ fs0["plugins"] = "old"
  /\ fs["plugins"] = "old"

\* C9 as claimed: when a fingerprint update downloads a file that does not
\* parse as a list of Template records, the database installed before is
\* still at its path afterwards.
C9_GoodDatabaseKept ==
  (hop \in {"web", "service"} /\ hpc = "exit" /\ hout = "ok_bad"
     /\ fs0[FpPath(hop)] = "old")
  => fs[FpPath(hop)] = "old"

\* C10 as claimed: when every candidate URL of a fingerprint update fails, or
\* the destination cannot be created, the database that was at the
\* destination is still there, unchanged.
C10_DatabaseKeptOnFailure ==
  (hop \in {"web", "service"} /\ hpc = "exit" /\ hout # "none"
     /\ ~DownloadOk(hout) /\ fs0[FpPath(hop)] = "old")
  => fs[FpPath(hop)] = fs0[FpPath(hop)]

\* The fingerprint file the running update writes.
Destination == FpPath(hop)

\* What the response of a candidate that answered with success carries.
UrlContent(o) == IF o = "ok_good" THEN "new" ELSE "bad"

\* C11: the fetch loop contacts the candidates in list order, moves to the
\* next one only after a failure and leaves the loop at the first success
\* without contacting a later candidate; after the loop the destination holds
\* the content of the candidate that succeeded and no other file has changed.
C11_FetchLoop ==
  LET n == Len(hlog) IN
  /\ n <= hurls
  /\ hop \in {"web", "service"} => hidx = n + 1
  /\ \A i \in 1..(n - 1) : ~DownloadOk(hlog[i])
  /\ (hop \in {"web", "service"} /\ hpc = "download")
       => /\ n < hurls
          /\ n > 0 => ~DownloadOk(hlog[n])
  /\ (hop \in {"web", "service"} /\ hpc = "validate")
       => /\ n >= 1
          /\ DownloadOk(hlog[n]) \/ n = hurls
          /\ DownloadOk(hlog[n]) => fs[Destination] = UrlContent(hlog[n])
          /\ \A p \in Paths \ {Destination} : fs[p] = fs0[p]

\* Candidates [bad, bad, good]: the loop is over, the third answered.
C11_Witness ==
  /\ hop = "web"
  /\ hpc = "validate"
  /\ hurls = 3
  /\ hlog = <<"status_err", "transport_err", "ok_good">>
  /\ fs0["web"] = "old"
  /\ fs["web"] = "new"


\* Request r arrived and was not answered 401 by the gate.
Accepted(r) == kind[r] # "idle" /\ resp[r] # 401

\* C12: with no secret configured the gate lets every credential through;
\* with a secret configured it lets a request through exactly when the
\* presented credential equals the secret; the gate changes nothing of the
\* server (cluster, lock, files).
C12_AuthGate ==
  \A r \in Req :
    kind[r] # "idle" =>
      /\ cli_config.token = None => Accepted(r)
      /\ cli_config.token # None => (Accepted(r) <=> cred[r] = cli_config.token)
      /\ cl = ClusterOf(0) /\ ~poisoned /\ readers = {} /\ writers = {}
      /\ fs = InstalledFs

\* No secret configured, a request with some credential was let through.
C12_Witness ==
  /\ cli_config.token = None
  /\ kind[1] = "scan"
  /\ cred[1] = 2
  /\ Accepted(1)
  /\ pc[1] = "read"

\* The plugin the body of authorized request r supplied (None: none).
BodyPlugin(r) == body[r][1].plugin
\* The plugin of the merged configuration of authorized request r.
EffectivePlugin(r) == cfg[r][1].plugin

\* C13 as stated: the effective plugin always equals the server's plugin.
C13_Original ==
  \A r \in Req : Authorized(r) => EffectivePlugin(r) = cli_config.plugin

\* C13: the effective plugin is the server's plugin or absent, never another
\* value; it is the server's plugin whenever the request supplied a plugin,
\* and absent whenever the request supplied none.
C13_ServerPluginOrAbsent ==
  \A r \in Req :
    Authorized(r) =>
      /\ EffectivePlugin(r) \in {cli_config.plugin, None}
      /\ BodyPlugin(r) # None => EffectivePlugin(r) = cli_config.plugin
      /\ BodyPlugin(r) = None => EffectivePlugin(r) = None

\* A scan request without a plugin on a server that has one: absent after
\* the merge.
C13_Witness ==
  /\ kind[1] = "scan"
  /\ Authorized(1)
  /\ cli_config.plugin # None
  /\ BodyPlugin(1) = None
  /\ EffectivePlugin(1) = None


\* The plugin rule of the merge at the site of request r.
PluginRule(r) ==
  /\ BodyPlugin(r) # None => EffectivePlugin(r) = cli_config.plugin
  /\ BodyPlugin(r) = None => EffectivePlugin(r) = None
  /\ (BodyPlugin(r) # None /\ BodyPlugin(r) # cli_config.plugin)
       => EffectivePlugin(r) # BodyPlugin(r)

\* C18: at the merge of a scan submission and at the merge of a set-config
\* alike, the effective plugin equals the server's plugin when the request
\* supplied a plugin and stays absent when it supplied none; a plugin value
\* the caller supplied that differs from the server's is never the effective one.
C18_ConditionalPlugin ==
  /\ \A r \in Req : (Authorized(r) /\ kind[r] = "scan") => PluginRule(r)
  /\ \A r \in Req : (Authorized(r) /\ kind[r] = "set") => PluginRule(r)

\* A set-config whose body names a plugin other than the server's: the
\* merged configuration carries the server's.
C18_Witness ==
  /\ kind[1] = "set"
  /\ Authorized(1)
  /\ cli_config.plugin = 1
  /\ BodyPlugin(1) = 2
  /\ EffectivePlugin(1) = 1


\* The scan task of request r is running.
ScanRunning(r) == kind[r] = "scan" /\ tx[r] = "open"

\* A request is inside the block that copies the handle.
Copying == \E r \in Req : pc[r] \in {"copy_a", "copy_b"}

\* C14: a scan holds the shared lock only while it copies the handle and has
\* released it before its task is spawned; so a set-config that asks for the
\* exclusive lock gets it whatever scans are running, unless a request is
\* copying the handle or another set-config holds the lock at that moment.
C14_ReplaceNeverWaitsForScan ==
  /\ \A r \in Req : (pc[r] = "spawn" \/ tx[r] # "none") => r \notin readers
  /\ \A q \in Req :
       (pc[q] = "write" /\ ~Copying /\ writers = {}) => ENABLED WriteLock(q)

\* A set-config holds the exclusive lock while a scan task is running and has
\* already produced a result.
C14_Witness ==
  \E r, q \in Req :
    /\ ScanRunning(r)
    /\ pushed[r] # <<>>
    /\ todo[r] # {}
    /\ q \in writers
    /\ pc[q] = "compute"


\* Scan request r is about to ask for the shared lock, which is poisoned.
ReadsPoisoned(r) == kind[r] = "scan" /\ pc[r] = "read" /\ poisoned

\* Every result scan r produced so far was matched against the default handle.
RunsOnDefault(r) ==
  \A i \in 1..Len(pushed[r]) : pushed[r][i].matched[2] = DefaultCl

\* C15: when a scan submission finds the lock poisoned, the handler does not
\* fail: it goes on to spawn the scan with a default handle, the scan matches
\* against that default handle, and the request is eventually answered 200.
C15_PoisonedReadServed ==
  /\ [][\A r \in Req :
          (ReadsPoisoned(r) /\ pc'[r] # pc[r])
            => (pc'[r] = "spawn" /\ handle'[r] = DefaultCl /\ resp'[r] = resp[r])
       ]_vars
  /\ \A r \in Req :
       ReadsPoisoned(r) ~> (resp[r] = 200 /\ handle[r] = DefaultCl /\ RunsOnDefault(r))

\* A batch scan submitted on a poisoned lock was answered 200 with results
\* matched against the default handle.
C15_Witness ==
  \E r \in Req :
    /\ Batch(r)
    /\ poisoned
    /\ seen[r] # DefaultCl
    /\ handle[r] = DefaultCl
    /\ resp[r] = 200
    /\ payload[r] # <<>>
    /\ RunsOnDefault(r)

\* C16: in POST /v1/config the exclusive lock is held only for the swap (the
\* templates are loaded and the cluster is computed without it), so a scan
\* submission's read is not blocked while a set-config computes the cluster.
C16_LockOnlyForSwap ==
  /\ \A q \in Req : q \in writers => pc[q] \in {"assign_a", "assign_b"}
  /\ \A q, r \in Req :
       (pc[q] = "compute" /\ pc[r] = "read") => ENABLED ReadLock(r)

\* The consumer of scan r has terminated: the batch handler has answered, or
\* the webhook pump has ended.
ConsumerDone(r) ==
  \/ Batch(r) /\ resp[r] = 200
  \/ Webhook(r) /\ pump[r] = "ended"

\* C17: no consumer terminates while the scan task still holds the sending
\* end; once the scan task has dropped it, the batch handler eventually
\* answers and the webhook pump eventually ends.
C17_ConsumersEndAtClose ==
  /\ [](\A r \in Req : tx[r] = "open" => ~ConsumerDone(r))
  /\ \A r \in Req : (Spawned(r) /\ tx[r] = "closed") ~> ConsumerDone(r)

\* A batch scan and a webhook scan have both ended, each after delivering a
\* result.
C17_Witness ==
  \E r, w \in Req :
    /\ Batch(r) /\ tx[r] = "closed" /\ resp[r] = 200 /\ payload[r] # <<>>
    /\ Webhook(w) /\ tx[w] = "closed" /\ pump[w] = "ended" /\ hooklog[w] # <<>>


\* C19: no request changes the configuration the server started with; an
\* authorized GET /v1/config answers with it; every authorized POST is merged
\* against it, whatever set-config requests came before, whose merged
\* configurations stay their own.
C19_ServerConfigFixed ==
  /\ [][cli_config' = cli_config]_vars
  /\ [](\A r \in Req :
          (kind[r] = "get" /\ resp[r] = 200) => payload[r] = <<cli_config>>)
  /\ [](\A r \in Req :
          Authorized(r) => cfg[r] = <<MergeConfig(body[r][1], cli_config)>>)

\* A set-config whose merged configuration asks for the refreshes has been
\* answered; a later GET carries the startup configuration, which asks for none.
C19_Witness ==
  \E q, g \in Req :
    /\ q < g
    /\ kind[q] = "set" /\ resp[q] = 200 /\ cl = ClusterOf(q)
    /\ kind[g] = "get" /\ resp[g] = 200
    /\ cfg[q][1].update_plugin
    /\ ~payload[g][1].update_plugin


\* C20: when the bundle download returned Ok but plugins.zip is not a valid
\* archive, the plugin directory, removed before the archive is opened, is not
\* restored: update_plugins ends with no plugin directory, and it does end
\* (the error is logged, nothing aborts).
C20_NoPluginsAfterBadArchive ==
  /\ (hop = "plugins" /\ hpc = "extract")
       => (fs["plugins"] = "none" /\ ENABLED PluginExtract)
  /\ (hop = "plugins" /\ hpc = "exit" /\ hout = "ok_bad")
       => (fs["plugins"] = "none" /\ fs["zip"] = "bad")

\* update_plugins returned after a download that is no archive; the plugin
\* directory installed before is gone.
C20_Witness ==
  /\ hop = "plugins"
  /\ hpc = "exit"
  /\ hout = "ok_bad"
  /\ fs0["plugins"] = "old"
  /\ fs["plugins"] = "none"

====
